---- MODULE Spec2Model ----
(***************************************************************************)
(* A model of the diffusion-id repository:                                 *)
(*   ai-pipeline/batch_processor.py  BatchFaceSwapProcessor                *)
(*   ai-pipeline/comfyui_api.py      ComfyUIFaceSwapAPI                    *)
(*   border-addition/add_border.py   the bounding-box border tool          *)
(* The batch dispatcher is one state machine (main thread, pool workers,   *)
(* each worker's process_single frame).  SpecBatch runs it with            *)
(* generate_face_swap as one step whose outcome the server decides;        *)
(* SpecPipeline runs one process_single call with generate_face_swap       *)
(* expanded into its remote operations; SpecBorder runs the border tool.   *)
(***************************************************************************)
EXTENDS Integers, Sequences, FiniteSets, TLC

(* ------------------------------ bounds -------------------------------- *)
\* longest source list given to process_batch
MaxSources == 2
\* largest max_workers a processor is configured with
MaxWorkers == 2
\* largest retry_attempts a processor is configured with, for one
\* process_single call and for a batch
MaxRetry == 3
MaxBatchRetry == 2
\* largest retry_attempts of the process_single call whose generate_face_swap
\* is run operation by operation
MaxPipeRetry == 2
\* largest timeout (seconds) wait_for_completion is run with
MaxTimeout == 2
\* longest time (seconds) the server takes to answer GET /history
MaxLatency == 1
\* most output nodes of a job, most images of one output node
MaxNodes == 2
MaxImages == 2
\* most pixels (width * height) of an input image, largest border width
MaxArea == 9
MaxBorder == 2
\* most entries of the directory given to process_directory
MaxEntries == 2
\* largest small image count and per-image time (seconds) of estimate_cost
MaxCostImages == 3
MaxCostTime == 3

VARIABLES
    \* BatchFaceSwapProcessor.__init__
    max_workers, retry_attempts,
    \* process_batch arguments
    sources, hasCallback,
    \* the server's behaviour per source: the 0-based attempt whose call is
    \* the first to succeed, or Never
    fate,
    \* per source, the exceptions a failing generate_face_swap call raises
    errs,
    \* estimate_cost: its arguments, its position, the dict it returns
    num_images, gpu_type, avg_time_per_image, epc, estimate,
    \* ThreadPoolExecutor: its work queue and one future per task
    queue, future,
    \* a pool worker's process_single frame
    wpc, wtask, attempt, exc,
    \* history: generate_face_swap calls, exceptions raised and sleeps per task
    calls, raised, slept,
    \* process_batch locals
    mainpc, nsub, yielded, completed, successful, failed, progress,
    \* generate_face_swap: position, locals, and the remote operations of
    \* the current call in the order they were issued
    gpc, source_upload, target_upload, prompt_id, entry, img_info,
    image_data, ops,
    \* wait_for_completion: its timeout and time.time() - start_time
    timeout, elapsed,
    \* the server's history of the queued job, whether the job got listed
    \* there before the timeout of the waiting call had elapsed, the file at
    \* output_path
    history, listed_in_time, outfile,
    \* add_border_to_subject: the file at input_path, the border_color and
    \* border_width arguments, its position, its return value and the file
    \* at output_path
    infile, border_color, border_width, bpc, bret, bout,
    \* add_border_to_subject locals: bbox, and the rectangles handed to
    \* draw.rectangle in the order of the calls
    bbox, rings,
    \* add_border.py main: the parsed arguments, what the file system holds
    \* at the input path, main's position and the status it exits with
    args, fsys, cpc, exit_code,
    \* process_directory locals and its return value
    png_files, idx, success_count, dir_result,
    \* the add_border_to_subject calls of the run with their return values,
    \* and the output paths written, in order
    processed, written

costVars  == <<num_images, gpu_type, avg_time_per_image, epc, estimate>>
procVars  == <<max_workers, retry_attempts, sources, hasCallback, fate, errs,
               costVars>>
poolVars  == <<queue, future>>
frameVars == <<wpc, wtask, attempt, exc>>
histVars  == <<calls, raised, slept>>
mainVars  == <<mainpc, nsub, yielded, completed, successful, failed, progress>>
genVars   == <<gpc, source_upload, target_upload, prompt_id, entry, img_info,
               image_data, ops>>
waitVars  == <<timeout, elapsed>>
envVars   == <<history, listed_in_time, outfile>>
pipeVars  == <<genVars, waitVars, envVars>>
batchVars == <<procVars, poolVars, frameVars, histVars, mainVars>>
cliVars == <<args, fsys, cpc, exit_code, png_files, idx, success_count,
             dir_result, processed, written>>
borderVars == <<infile, border_color, border_width, bpc, bret, bout, bbox,
                rings, cliVars>>
vars == <<batchVars, pipeVars, borderVars>>

(* ------------------------------ values -------------------------------- *)
\* a fate no attempt reaches (retry_attempts <= MaxRetry): every call raises
Never == MaxRetry

\* a source path: directory, stem, suffix
SourcePath(d, i) == [dir |-> d, stem |-> <<"photo", i>>, suffix |-> ".png"]

\* the source list of a batch of n photos of one directory
SourceList(n) == [i \in 1..n |-> SourcePath("examples", i)]

TargetBody == [dir |-> "examples", stem |-> <<"style", 0>>, suffix |-> ".png"]
OutputDir == "outputs"

\* the exceptions a generate_face_swap call raises
HTTPError == [type |-> "HTTPError", msg |-> <<"500 Server Error">>]
TimeoutError(t) == [type |-> "TimeoutError",
                    msg |-> <<"Workflow did not complete within", t, "seconds">>]
RuntimeError == [type |-> "RuntimeError",
                 msg |-> <<"No output image found in workflow results">>]
\* the timeout generate_face_swap leaves to wait_for_completion
DefaultTimeout == 300
Exceptions == {HTTPError, TimeoutError(DefaultTimeout), RuntimeError}
NoExc == [type |-> "none", msg |-> <<>>]

\* the exception the server's failures for the i-th source of a batch lead
\* to: the three kinds in turn
ExceptionOf(i) ==
    CASE i % 3 = 1 -> HTTPError
      [] i % 3 = 2 -> TimeoutError(DefaultTimeout)
      [] OTHER -> RuntimeError

\* str(e)
Str(e) == e.msg

\* Path(source_face).stem
Stem(p) == p.stem

\* os.path.join(output_dir, f"{filename}_output.png")
OutputPath(dir, p) == <<dir, Stem(p), "_output.png">>

\* the tasks list of process_batch
Tasks == [i \in 1..Len(sources) |->
            [source |-> sources[i], target |-> TargetBody,
             output |-> OutputPath(OutputDir, sources[i])]]

\* mutant: the pool runs one thread more than max_workers
WorkersOneMore == 1..(max_workers + 1)

\* ThreadPoolExecutor(max_workers=self.max_workers): the pool's threads
Workers == 1..max_workers
Items == 1..Len(sources)

Pending == [kind |-> "pending"]
Result(v) == [kind |-> "result", val |-> v]
Raised(e) == [kind |-> "exception", val |-> e]

(* --------------------------- process_single --------------------------- *)
\* mutants of the except clause: the last attempt is taken to be attempt
\* retry_attempts; the backoff doubles from 2 s; the last error is raised
\* again; a RuntimeError is not retried
ExceptOffByOne(att, src, e) ==
    IF att = retry_attempts
    THEN [kind |-> "return", val |-> <<FALSE, src, Str(e)>>]
    ELSE [kind |-> "sleep", secs |-> 2 ^ att]
ExceptLateBackoff(att, src, e) ==
    IF att = retry_attempts - 1
    THEN [kind |-> "return", val |-> <<FALSE, src, Str(e)>>]
    ELSE [kind |-> "sleep", secs |-> 2 ^ (att + 1)]
ExceptReraise(att, src, e) ==
    IF att = retry_attempts - 1
    THEN [kind |-> "raise", val |-> e]
    ELSE [kind |-> "sleep", secs |-> 2 ^ att]
ExceptNoRetryRuntime(att, src, e) ==
    IF att = retry_attempts - 1 \/ e.type = "RuntimeError"
    THEN [kind |-> "return", val |-> <<FALSE, src, Str(e)>>]
    ELSE [kind |-> "sleep", secs |-> 2 ^ att]

\* what the except clause of process_single does with exception e caught
\* on the given attempt: return the failure, or sleep and go on
ExceptOutcome(att, src, e) ==
    IF att = retry_attempts - 1
    THEN [kind |-> "return", val |-> <<FALSE, src, Str(e)>>]
    ELSE [kind |-> "sleep", secs |-> 2 ^ att]

\* the return after the for loop
MaxRetriesExceeded(src) == <<FALSE, src, <<"Max retries exceeded">>>>

\* a worker thread takes the next work item of the executor's queue and
\* enters process_single
Take(w) ==
    /\ wpc[w] = "idle"
    /\ queue # <<>>
    /\ wtask' = [wtask EXCEPT ![w] = Head(queue)]
    /\ queue' = Tail(queue)
    /\ attempt' = [attempt EXCEPT ![w] = 0]
    /\ wpc' = [wpc EXCEPT ![w] = "for"]
    /\ UNCHANGED <<future, exc, procVars, histVars, mainVars>>
    /\ UNCHANGED <<pipeVars, borderVars>>

\* the worker leaves process_single with outcome o of the work item
Finish(w, o) ==
    /\ future' = [future EXCEPT ![wtask[w]] = o]
    /\ wpc' = [wpc EXCEPT ![w] = "idle"]
    /\ wtask' = [wtask EXCEPT ![w] = 0]
    /\ exc' = [exc EXCEPT ![w] = NoExc]

\* for attempt in range(self.retry_attempts): the range is empty, and
\* control reaches the return after the loop
ForEmpty(w) ==
    /\ wpc[w] = "for"
    /\ ~(attempt[w] < retry_attempts)
    /\ Finish(w, Result(MaxRetriesExceeded(Tasks[wtask[w]].source)))
    /\ UNCHANGED <<queue, attempt, procVars, histVars, mainVars>>
    /\ UNCHANGED <<pipeVars, borderVars>>

\* the call succeeded: return (True, source_face, output_path)
CallReturned(w) ==
    /\ Finish(w, Result(<<TRUE, Tasks[wtask[w]].source, Tasks[wtask[w]].output>>))
    /\ UNCHANGED <<queue, attempt, procVars, mainVars>>

\* the call raised e: control goes to the except clause
CallRaised(w, e) ==
    /\ exc' = [exc EXCEPT ![w] = e]
    /\ raised' = [raised EXCEPT ![wtask[w]] = Append(@, e)]
    /\ wpc' = [wpc EXCEPT ![w] = "except"]
    /\ UNCHANGED <<queue, future, wtask, attempt, procVars, mainVars>>

\* self.api.generate_face_swap(...) as one step: the server decides
GenerateFaceSwap(w) ==
    /\ wpc[w] = "for"
    /\ attempt[w] < retry_attempts
    /\ calls' = [calls EXCEPT ![wtask[w]] = @ + 1]
    /\ IF fate[wtask[w]] = attempt[w]
       THEN /\ CallReturned(w)
            /\ UNCHANGED <<raised, slept>>
       ELSE /\ \E e \in errs[wtask[w]] : CallRaised(w, e)
            /\ UNCHANGED slept
    /\ UNCHANGED <<pipeVars, borderVars>>

\* except Exception as e
Except(w) ==
    /\ wpc[w] = "except"
    /\ LET o == ExceptOutcome(attempt[w], Tasks[wtask[w]].source, exc[w]) IN
       CASE o.kind = "return" ->
              /\ Finish(w, Result(o.val))
              /\ UNCHANGED <<attempt, slept>>
         [] o.kind = "raise" ->
              /\ Finish(w, Raised(o.val))
              /\ UNCHANGED <<attempt, slept>>
         [] o.kind = "sleep" ->
              /\ slept' = [slept EXCEPT ![wtask[w]] = Append(@, o.secs)]
              /\ wpc' = [wpc EXCEPT ![w] = "sleep"]
              /\ UNCHANGED <<future, wtask, attempt, exc>>
    /\ UNCHANGED <<queue, calls, raised, procVars, mainVars>>
    /\ UNCHANGED <<pipeVars, borderVars>>

\* time.sleep(2 ** attempt) is over: next iteration of the for loop
Wake(w) ==
    /\ wpc[w] = "sleep"
    /\ attempt' = [attempt EXCEPT ![w] = @ + 1]
    /\ exc' = [exc EXCEPT ![w] = NoExc]
    /\ wpc' = [wpc EXCEPT ![w] = "for"]
    /\ UNCHANGED <<queue, future, wtask, procVars, histVars, mainVars>>
    /\ UNCHANGED <<pipeVars, borderVars>>

(* ---------------------------- process_batch --------------------------- *)
\* executor.submit(self.process_single, *task) for task in tasks
Submit ==
    /\ mainpc = "submit"
    /\ IF nsub < Len(sources)
       THEN /\ queue' = Append(queue, nsub + 1)
            /\ nsub' = nsub + 1
            /\ UNCHANGED mainpc
       ELSE /\ mainpc' = "as_completed"
            /\ UNCHANGED <<queue, nsub>>
    /\ UNCHANGED <<future, yielded, completed, successful, failed, progress,
                   procVars, frameVars, histVars>>
    /\ UNCHANGED <<pipeVars, borderVars>>

\* mutant: the result tuple itself is tested, and a tuple is true
AccumulateTruthy(ok, src, res) ==
    /\ successful' = Append(successful, [source |-> src, output |-> res])
    /\ UNCHANGED failed

\* mutant: the list is built anew from the entry, the earlier ones are lost
AccumulateLost(ok, src, res) ==
    IF ok
    THEN /\ successful' = <<[source |-> src, output |-> res]>>
         /\ UNCHANGED failed
    ELSE /\ failed' = <<[source |-> src, error |-> res]>>
         /\ UNCHANGED successful

\* mutant: no else, a successful item is entered in 'failed' as well
AccumulateBoth(ok, src, res) ==
    /\ successful' = IF ok
                     THEN Append(successful, [source |-> src, output |-> res])
                     ELSE successful
    /\ failed' = Append(failed, [source |-> src, error |-> res])

\* the results dict after the future of task i gave (success, source, result)
Accumulate(ok, src, res) ==
    IF ok
    THEN /\ successful' = Append(successful, [source |-> src, output |-> res])
         /\ UNCHANGED failed
    ELSE /\ failed' = Append(failed, [source |-> src, error |-> res])
         /\ UNCHANGED successful

\* for future in as_completed(futures): one finished future is yielded and
\* the loop body runs up to the progress callback
NextCompleted ==
    /\ mainpc = "as_completed"
    /\ IF yielded = Items
       THEN /\ mainpc' = "exit"
            /\ UNCHANGED <<yielded, completed, successful, failed>>
       ELSE \E i \in Items \ yielded :
            /\ future[i].kind # "pending"
            /\ yielded' = yielded \cup {i}
            /\ IF future[i].kind = "exception"
               THEN /\ mainpc' = "raised"
                    /\ UNCHANGED <<completed, successful, failed>>
               ELSE /\ completed' = completed + 1
                    /\ Accumulate(future[i].val[1], future[i].val[2],
                                  future[i].val[3])
                    /\ mainpc' = IF hasCallback THEN "callback"
                                 ELSE "as_completed"
    /\ UNCHANGED <<nsub, progress, poolVars, procVars, frameVars, histVars>>
    /\ UNCHANGED <<pipeVars, borderVars>>

\* mutant: the callback is given the number of futures still to come
ProgressArgsRemaining ==
    <<Len(Tasks) - completed, Len(Tasks), Len(successful), Len(failed)>>

\* the arguments of the progress callback
ProgressArgs == <<completed, Len(Tasks), Len(successful), Len(failed)>>

\* progress_callback(completed, len(tasks), len(successful), len(failed))
Progress ==
    /\ mainpc = "callback"
    /\ progress' = Append(progress, ProgressArgs)
    /\ mainpc' = "as_completed"
    /\ UNCHANGED <<nsub, yielded, completed, successful, failed,
                   poolVars, procVars, frameVars, histVars>>
    /\ UNCHANGED <<pipeVars, borderVars>>

\* the with block is left (every future is done) and results is returned
Return ==
    /\ mainpc = "exit"
    /\ \A i \in Items : future[i].kind # "pending"
    /\ mainpc' = "returned"
    /\ UNCHANGED <<nsub, yielded, completed, successful, failed, progress,
                   poolVars, procVars, frameVars, histVars>>
    /\ UNCHANGED <<pipeVars, borderVars>>

(* ------------------------- ComfyUIFaceSwapAPI -------------------------- *)
\* seconds wait_for_completion sleeps between two polls
PollInterval == 1

NoUpload == [name |-> <<>>]
NoHistory == [present |-> FALSE, outputs |-> <<>>]

\* the names the server may store an uploaded file under (response.json())
ServerNames(path) == { <<path.stem, path.suffix>>,
                       <<path.stem, "(1)", path.suffix>> }

\* upload_image: the server's answers to POST /upload/image, raise_for_status
UploadOutcomes(path) ==
    { [ok |-> TRUE, json |-> [name |-> n]] : n \in ServerNames(path) }
    \cup { [ok |-> FALSE, json |-> NoUpload] }

\* create_workflow: the graph's two LoadImage nodes and the parameters
create_workflow(source_face_image, target_body_image, style_strength, cartoon_style) ==
    [node1_image |-> source_face_image,
     node2_image |-> target_body_image,
     ip_adapter_strength |-> style_strength,
     style |-> cartoon_style]

\* an output node of a finished job: without an 'images' key, or with a
\* list of n images; image j of node i is the file <<i, j>>
NodeShapes == { [key |-> FALSE, n |-> 0] }
              \cup { [key |-> TRUE, n |-> k] : k \in 0..MaxImages }
OutputShapes == UNION { [1..k -> NodeShapes] : k \in 0..MaxNodes }

\* mutant: the first image of the first node is taken unseen
FirstImageUnchecked(outputs) ==
    IF outputs = <<>> THEN <<>> ELSE <<1, 1>>

\* the loops over outputs.items() and node_output['images']: the first
\* img_info they reach, <<>> when they end without reaching one
FirstImage(outputs) ==
    LET with == { i \in 1..Len(outputs) : outputs[i].key /\ outputs[i].n > 0 }
    IN  IF with = {} THEN <<>>
        ELSE <<CHOOSE i \in with : \A j \in with : i <= j, 1>>

\* get_image: response.content of GET /view for an img_info
Content(img) == <<"bytes of", img>>

\* an operation issued to the server or the file system, and its result
Op(name, arg, ok, res) == [op |-> name, arg |-> arg, ok |-> ok, res |-> res]

\* the locals of generate_face_swap and wait_for_completion, the job
\* the call queued
callVars == <<source_upload, target_upload, prompt_id, entry, img_info,
              image_data, elapsed, history, listed_in_time>>

\* no call is in progress: no locals, no queued job
NoCall ==
    /\ source_upload' = NoUpload
    /\ target_upload' = NoUpload
    /\ prompt_id' = <<>>
    /\ entry' = NoHistory
    /\ img_info' = <<>>
    /\ image_data' = <<>>
    /\ elapsed' = 0
    /\ history' = NoHistory
    /\ listed_in_time' = FALSE

\* process_single calls self.api.generate_face_swap(...)
GenCall(w) ==
    /\ wpc[w] = "for"
    /\ attempt[w] < retry_attempts
    /\ calls' = [calls EXCEPT ![wtask[w]] = @ + 1]
    /\ wpc' = [wpc EXCEPT ![w] = "call"]
    /\ gpc' = "upload_source"
    /\ ops' = <<>>
    /\ UNCHANGED <<callVars, timeout, outfile, borderVars>>
    /\ UNCHANGED <<queue, future, wtask, attempt, exc, raised, slept,
                   procVars, mainVars>>

\* mutant: a failed step is issued again instead of raising
GenRaiseRetry(w, e) ==
    /\ gpc' = gpc
    /\ UNCHANGED <<callVars, batchVars, timeout, outfile, borderVars>>

\* an exception leaves generate_face_swap
GenRaise(w, e) ==
    /\ CallRaised(w, e)
    /\ gpc' = "none"
    /\ NoCall
    /\ UNCHANGED <<calls, slept, timeout, outfile, borderVars>>

\* the call goes on at position pc
GenGoto(pc) ==
    /\ gpc' = pc
    /\ UNCHANGED <<batchVars, timeout, outfile, borderVars>>

\* source_upload = self.upload_image(source_face_path)
UploadSource(w) ==
    /\ wpc[w] = "call" /\ gpc = "upload_source"
    /\ \E r \in UploadOutcomes(Tasks[wtask[w]].source) :
         /\ ops' = Append(ops, Op("upload", Tasks[wtask[w]].source, r.ok,
                                  r.json.name))
         /\ IF r.ok
            THEN /\ source_upload' = r.json
                 /\ GenGoto("upload_target")
                 /\ UNCHANGED <<target_upload, prompt_id, entry, img_info,
                                image_data, elapsed, history,
                                listed_in_time>>
            ELSE GenRaise(w, HTTPError)

\* target_upload = self.upload_image(target_body_path)
UploadTarget(w) ==
    /\ wpc[w] = "call" /\ gpc = "upload_target"
    /\ \E r \in UploadOutcomes(Tasks[wtask[w]].target) :
         /\ ops' = Append(ops, Op("upload", Tasks[wtask[w]].target, r.ok,
                                  r.json.name))
         /\ IF r.ok
            THEN /\ target_upload' = r.json
                 /\ GenGoto("queue_prompt")
                 /\ UNCHANGED <<source_upload, prompt_id, entry, img_info,
                                image_data, elapsed, history,
                                listed_in_time>>
            ELSE GenRaise(w, HTTPError)

\* mutant: the two uploads are passed in the other order
WorkflowSwapped ==
    create_workflow(target_upload.name, source_upload.name, "style_strength",
                    "professional illustration")

\* the workflow generate_face_swap builds from its uploads
Workflow ==
    create_workflow(source_upload.name, target_upload.name, "style_strength",
                    "professional illustration")

\* workflow = self.create_workflow(...); prompt_id = self.queue_prompt(workflow)
QueuePrompt(w) ==
    /\ wpc[w] = "call" /\ gpc = "queue_prompt"
    /\ \E ok \in BOOLEAN :
         LET id == IF ok THEN <<"prompt", calls[wtask[w]]>> ELSE <<>> IN
         /\ ops' = Append(ops, Op("prompt", Workflow, ok, id))
         /\ IF ok
            THEN /\ prompt_id' = id
                 /\ GenGoto("wait")
                 /\ UNCHANGED <<source_upload, target_upload, entry, img_info,
                                image_data, elapsed, history,
                                listed_in_time>>
            ELSE GenRaise(w, HTTPError)

\* wait_for_completion: start_time = time.time()
WaitStart(w) ==
    /\ wpc[w] = "call" /\ gpc = "wait"
    /\ elapsed' = 0
    /\ GenGoto("while")
    /\ UNCHANGED <<source_upload, target_upload, prompt_id, entry, img_info,
                   image_data, history, listed_in_time, ops>>

\* mutant: whatever the server answers is taken for the job's entry
InHistoryAlways(id, h) == TRUE

\* prompt_id in history
InHistory(id, h) == h.present

\* while time.time() - start_time < timeout: history = get_history(prompt_id);
\* if prompt_id in history: return history[prompt_id]
Poll(w) ==
    /\ wpc[w] = "call" /\ gpc = "while"
    /\ elapsed < timeout
    /\ \E d \in 0..MaxLatency, ok \in BOOLEAN :
         /\ ops' = Append(ops, Op("history", prompt_id, ok,
                                  IF ok THEN history ELSE NoHistory))
         /\ IF ok
            THEN /\ elapsed' = elapsed + d
                 /\ IF InHistory(prompt_id, history)
                    THEN /\ entry' = history
                         /\ GenGoto("extract")
                    ELSE /\ GenGoto("sleep")
                         /\ UNCHANGED entry
                 /\ UNCHANGED <<source_upload, target_upload, prompt_id,
                                img_info, image_data, history,
                                listed_in_time>>
            ELSE GenRaise(w, HTTPError)

\* time.sleep(1)
PollSleep(w) ==
    /\ wpc[w] = "call" /\ gpc = "sleep"
    /\ elapsed' = elapsed + PollInterval
    /\ GenGoto("while")
    /\ UNCHANGED <<source_upload, target_upload, prompt_id, entry, img_info,
                   image_data, history, listed_in_time, ops>>

\* the while condition is false: raise TimeoutError
TimedOut(w) ==
    /\ wpc[w] = "call" /\ gpc = "while"
    /\ ~(elapsed < timeout)
    /\ GenRaise(w, TimeoutError(timeout))
    /\ UNCHANGED ops

\* the server finishes the queued job: it appears in the history
JobCompletes ==
    /\ gpc \in {"wait", "while", "sleep"}
    /\ ~history.present
    /\ \E o \in OutputShapes : history' = [present |-> TRUE, outputs |-> o]
    /\ listed_in_time' = (elapsed < timeout)
    /\ UNCHANGED <<gpc, source_upload, target_upload, prompt_id, entry,
                   img_info, image_data, elapsed, ops, timeout, outfile,
                   batchVars, borderVars>>

\* outputs = history['outputs'] and the two for loops up to get_image, or
\* past their end: raise RuntimeError
Extract(w) ==
    /\ wpc[w] = "call" /\ gpc = "extract"
    /\ LET img == FirstImage(entry.outputs) IN
         IF img = <<>>
         THEN GenRaise(w, RuntimeError)
         ELSE /\ img_info' = img
              /\ GenGoto("get_image")
              /\ UNCHANGED <<source_upload, target_upload, prompt_id, entry,
                             image_data, elapsed, history,
                                listed_in_time>>
    /\ UNCHANGED ops

\* image_data = self.get_image(img_info['filename'], ...)
GetImage(w) ==
    /\ wpc[w] = "call" /\ gpc = "get_image"
    /\ \E ok \in BOOLEAN :
         /\ ops' = Append(ops, Op("view", img_info, ok,
                                  IF ok THEN Content(img_info) ELSE <<>>))
         /\ IF ok
            THEN /\ image_data' = Content(img_info)
                 /\ GenGoto("write")
                 /\ UNCHANGED <<source_upload, target_upload, prompt_id,
                                entry, img_info, elapsed, history,
                                listed_in_time>>
            ELSE GenRaise(w, HTTPError)

\* if output_path: open(output_path, 'wb').write(image_data); return image_data
WriteFile(w) ==
    /\ wpc[w] = "call" /\ gpc = "write"
    /\ IF Tasks[wtask[w]].output # <<>>
       THEN /\ outfile' = image_data
            /\ ops' = Append(ops, Op("write", Tasks[wtask[w]].output, TRUE,
                                     image_data))
       ELSE UNCHANGED <<outfile, ops>>
    /\ gpc' = "none"
    /\ NoCall
    /\ CallReturned(w)
    /\ UNCHANGED <<calls, raised, slept, timeout, borderVars>>

(* ----------------------------- add_border.py --------------------------- *)
\* value of a hexadecimal digit (int(..., 16)), -1 for any other character
HexDigits == <<"0", "1", "2", "3", "4", "5", "6", "7", "8", "9",
               "a", "b", "c", "d", "e", "f">>
UpperDigits == <<"0", "1", "2", "3", "4", "5", "6", "7", "8", "9",
                 "A", "B", "C", "D", "E", "F">>
HexVal(ch) ==
    IF \E k \in 1..Len(HexDigits) : ch \in {HexDigits[k], UpperDigits[k]}
    THEN (CHOOSE k \in 1..Len(HexDigits) :
             ch \in {HexDigits[k], UpperDigits[k]}) - 1
    ELSE -1

\* hex_color.lstrip('#')
RECURSIVE LStripHash(_)
LStripHash(str) ==
    IF str # <<>> /\ Head(str) = "#" THEN LStripHash(Tail(str)) ELSE str

\* hex_color[i:i+2] for a 0-based i
Slice2(str, i) ==
    SubSeq(str, i + 1, IF i + 2 < Len(str) THEN i + 2 ELSE Len(str))

\* int(text, 16) of at most two characters; -1 for ValueError
Int16(text) ==
    IF text = <<>> \/ \E k \in 1..Len(text) : HexVal(text[k]) < 0 THEN -1
    ELSE IF Len(text) = 1 THEN HexVal(text[1])
    ELSE 16 * HexVal(text[1]) + HexVal(text[2])

\* hex_to_rgb: the RGB tuple, <<>> when int() raises ValueError
hex_to_rgb(hex_color) ==
    LET h == LStripHash(hex_color)
        rgb == <<Int16(Slice2(h, 0)), Int16(Slice2(h, 2)), Int16(Slice2(h, 4))>>
    IN  IF \E k \in 1..3 : rgb[k] < 0 THEN <<>> ELSE rgb

\* the set's least and greatest element
Min(S) == CHOOSE m \in S : \A k \in S : m <= k
Max(S) == CHOOSE m \in S : \A k \in S : k <= m

\* mutant: every pixel counts as part of the subject (alpha >= 0)
get_subject_bbox_all(img) ==
    IF img.w = 0 \/ img.h = 0 THEN <<>> ELSE <<0, 0, img.w - 1, img.h - 1>>

\* mutant: rows and columns exchanged, (top, left, bottom, right)
get_subject_bbox_transposed(img) ==
    LET non_transparent(x, y) == img.px[<<x, y>>].a > 0
        rows == { y \in 0..img.h - 1 : \E x \in 0..img.w - 1 : non_transparent(x, y) }
        cols == { x \in 0..img.w - 1 : \E y \in 0..img.h - 1 : non_transparent(x, y) }
    IN  IF rows = {} \/ cols = {} THEN <<>>
        ELSE <<Min(rows), Min(cols), Max(rows), Max(cols)>>

\* get_subject_bbox: (left, top, right, bottom) of the pixels with
\* alpha > 0, <<>> for None
get_subject_bbox(img) ==
    LET non_transparent(x, y) == img.px[<<x, y>>].a > 0
        rows == { y \in 0..img.h - 1 : \E x \in 0..img.w - 1 : non_transparent(x, y) }
        cols == { x \in 0..img.w - 1 : \E y \in 0..img.h - 1 : non_transparent(x, y) }
    IN  IF rows = {} \/ cols = {} THEN <<>>
        ELSE <<Min(cols), Min(rows), Max(cols), Max(rows)>>

\* mutant: the rectangle is filled (fill=rgba) instead of outlined
RectangleFilled(img, x0, y0, x1, y1, rgba) ==
    [img EXCEPT !.px =
        [p \in DOMAIN img.px |->
            IF x0 <= p[1] /\ p[1] <= x1 /\ y0 <= p[2] /\ p[2] <= y1
            THEN rgba ELSE img.px[p]]]

\* draw.rectangle([x0, y0, x1, y1], outline=rgba, width=1)
Rectangle(img, x0, y0, x1, y1, rgba) ==
    [img EXCEPT !.px =
        [p \in DOMAIN img.px |->
            IF /\ x0 <= p[1] /\ p[1] <= x1 /\ y0 <= p[2] /\ p[2] <= y1
               /\ (p[1] = x0 \/ p[1] = x1 \/ p[2] = y0 \/ p[2] = y1)
            THEN rgba ELSE img.px[p]]]

\* mutant: the expanded rectangle is drawn without clamping
RingCoordsUnclamped(img, box, i) ==
    <<box[1] - i, box[2] - i, box[3] + i, box[4] + i>>

\* the body of "for i in range(border_width)" for ring i: the expanded
\* rectangle <<x0, y0, x1, y1>>, clamped with max(0, .) and min(size - 1, .)
RingCoords(img, box, i) ==
    LET x0 == box[1] - i
        y0 == box[2] - i
        x1 == box[3] + i
        y1 == box[4] + i
    IN  <<IF 0 > x0 THEN 0 ELSE x0,
          IF 0 > y0 THEN 0 ELSE y0,
          IF img.w - 1 < x1 THEN img.w - 1 ELSE x1,
          IF img.h - 1 < y1 THEN img.h - 1 ELSE y1>>

\* ring i drawn on result
DrawRing(result, box, i, rgba) ==
    LET c == RingCoords(result, box, i)
    IN  Rectangle(result, c[1], c[2], c[3], c[4], rgba)

\* the for loop from ring i on
RECURSIVE DrawRings(_, _, _, _, _)
DrawRings(result, box, i, width, rgba) ==
    IF i < width
    THEN DrawRings(DrawRing(result, box, i, rgba), box, i + 1, width, rgba)
    ELSE result

\* the rectangles of the draw.rectangle calls of the loop, in call order
RingsDrawn(img, box, width) ==
    [k \in 1..(IF width > 0 THEN width ELSE 0) |-> RingCoords(img, box, k - 1)]

\* img.convert('RGBA'): an image without alpha channel becomes opaque
ConvertRGBA(img) ==
    [img EXCEPT !.mode = "RGBA",
                !.px = [p \in DOMAIN img.px |-> [img.px[p] EXCEPT !.a = 255]]]

NoFile == [mode |-> "none", w |-> 0, h |-> 0, px |-> <<>>]

\* the return value of add_border_to_subject: False out of the except
\* clause when the file cannot be opened or the colour cannot be parsed,
\* True after either save
BorderReturn(file, color) ==
    IF file.mode = "unreadable" THEN FALSE
    ELSE LET img == IF file.mode # "RGBA" THEN ConvertRGBA(file) ELSE file
         IN  get_subject_bbox(img) = <<>> \/ hex_to_rgb(color) # <<>>

\* add_border_to_subject as a function of the input file: the file written
\* to output_path (NoFile when none is), and the locals bbox and the
\* rectangles drawn
BorderResult(file, color, width) ==
    IF file.mode = "unreadable"
    THEN [out |-> NoFile, bbox |-> <<>>, rings |-> <<>>]
    ELSE
    LET img == IF file.mode # "RGBA" THEN ConvertRGBA(file) ELSE file
        box == get_subject_bbox(img)
    IN  IF box = <<>>
        THEN [out |-> img, bbox |-> <<>>, rings |-> <<>>]
        ELSE LET border_rgb == hex_to_rgb(color) IN
             IF border_rgb = <<>>
             THEN [out |-> NoFile, bbox |-> box, rings |-> <<>>]
             ELSE [out |-> DrawRings(img, box, 0, width,
                                [rgb |-> border_rgb, a |-> 255]),
                   bbox |-> box,
                   rings |-> RingsDrawn(img, box, width)]

\* add_border_to_subject(input_path, output_path, border_color, border_width)
AddBorder ==
    /\ bpc = "call"
    /\ LET r == BorderResult(infile, border_color, border_width) IN
         /\ bret' = BorderReturn(infile, border_color)
         /\ bout' = IF r.out = NoFile THEN bout ELSE r.out
         /\ bbox' = r.bbox
         /\ rings' = r.rings
    /\ bpc' = "done"
    /\ UNCHANGED <<infile, border_color, border_width, cliVars>>
    /\ UNCHANGED <<batchVars, pipeVars>>

\* the pixel coordinates (x, y) of a w x h image
Pixels(w, h) == (0..w - 1) \X (0..h - 1)

(* the silhouette border: the second border script, described in section
   4.4 of the specification *)
\* mutant: a 4-connected (cross-shaped) structuring element
Dilate4(mask, w, h) ==
    { p \in Pixels(w, h) :
        \E q \in mask : \/ p = q
                         \/ (p[1] = q[1] /\ p[2] - q[2] \in {-1, 1})
                         \/ (p[2] = q[2] /\ p[1] - q[1] \in {-1, 1}) }

\* one dilation step with the 8-connected (3 x 3 all-true) structuring
\* element, inside a w x h grid
Dilate(mask, w, h) ==
    { p \in Pixels(w, h) :
        \E q \in mask : /\ p[1] - q[1] \in {-1, 0, 1}
                         /\ p[2] - q[2] \in {-1, 0, 1} }

\* n successive dilation steps
RECURSIVE DilateN(_, _, _, _)
DilateN(mask, w, h, n) ==
    IF n > 0 THEN DilateN(Dilate(mask, w, h), w, h, n - 1) ELSE mask

\* SubjectMask: the cells with alpha > 0
SubjectMask(img) == { p \in Pixels(img.w, img.h) : img.px[p].a > 0 }

\* the border region: dilatedMask AND NOT subjectMask
BorderRegion(img, width) ==
    DilateN(SubjectMask(img), img.w, img.h, width) \ SubjectMask(img)

\* the silhouette strategy as a function of the input file: the empty mask
\* passes the image through, otherwise the border region is painted with
\* the colour at full opacity
SilhouetteResult(file, color, width) ==
    IF file.mode = "unreadable" THEN [ret |-> FALSE, out |-> NoFile]
    ELSE
    LET img == IF file.mode # "RGBA" THEN ConvertRGBA(file) ELSE file
    IN  IF SubjectMask(img) = {} THEN [ret |-> TRUE, out |-> img]
        ELSE [ret |-> TRUE,
              out |-> [img EXCEPT !.px =
                         [p \in DOMAIN img.px |->
                            IF p \in BorderRegion(img, width)
                            THEN [rgb |-> hex_to_rgb(color), a |-> 255]
                            ELSE img.px[p]]]]

\* one run of the silhouette script on the file at input_path
AddSilhouette ==
    /\ bpc = "call"
    /\ LET r == SilhouetteResult(infile, border_color, border_width) IN
         /\ bret' = r.ret
         /\ bout' = IF r.out = NoFile THEN bout ELSE r.out
    /\ bpc' = "done"
    /\ UNCHANGED <<infile, border_color, border_width, bbox, rings, cliVars>>
    /\ UNCHANGED <<batchVars, pipeVars>>

\* the alpha values and the colour of the pixels of an input file
Alphas == {0, 1}
InputRGB == <<16, 32, 48>>

\* the input files: RGBA images of every size and alpha channel, opaque
\* RGB images, and a file PIL cannot open
Sizes == { s \in (1..MaxArea) \X (1..MaxArea) : s[1] * s[2] <= MaxArea }
InputFiles ==
    UNION { { [mode |-> "RGBA", w |-> s[1], h |-> s[2],
               px |-> [p \in Pixels(s[1], s[2]) |->
                         [rgb |-> InputRGB, a |-> al[p]]]] :
              al \in [Pixels(s[1], s[2]) -> Alphas] } : s \in Sizes }
    \cup { [mode |-> "RGB", w |-> s[1], h |-> s[2],
            px |-> [p \in Pixels(s[1], s[2]) |-> [rgb |-> InputRGB, a |-> 255]]] :
           s \in Sizes }
    \cup { [mode |-> "unreadable", w |-> 0, h |-> 0, px |-> <<>>] }

\* border_color arguments: the default, one without '#', one that is no
\* hexadecimal colour
BorderColors == { <<"#", "F", "F", "0", "0", "0", "0">>,
                  <<"0", "0", "8", "0", "F", "F">>,
                  <<"r", "e", "d">> }

(* --------------------------- add_border.py main ------------------------ *)
\* the bounds of the width check in main
WidthLow == 1
WidthHigh == 100

\* an option that was not given (None)
NoArg == "None"
NoResult == <<>>
NoCode == -1

\* the files of the runs of main: the input files of one pixel, and the
\* file PIL cannot open
SampleFiles == { f \in InputFiles : f.w * f.h <= 1 }
Unreadable == [mode |-> "unreadable", w |-> 0, h |-> 0, px |-> <<>>]

\* a directory entry: a regular file with its suffix and content, or a
\* subdirectory named like a PNG file
Suffixes == {".png", ".PNG", ".txt"}
DirEntries ==
    [suffix : Suffixes, is_file : {TRUE}, content : SampleFiles]
    \cup [suffix : {".png"}, is_file : {FALSE}, content : {Unreadable}]

\* the listings input_path.iterdir() yields, in the order it yields them;
\* entry k has the stem k
Listings == UNION { [1..n -> DirEntries] : n \in 0..MaxEntries }

\* what the file system holds at the input path
FileSystems ==
    { [kind |-> "missing", content |-> Unreadable, entries |-> <<>>] }
    \cup { [kind |-> "file", content |-> f, entries |-> <<>>] : f \in SampleFiles }
    \cup { [kind |-> "dir", content |-> Unreadable, entries |-> l] : l \in Listings }

\* the --width values: around both ends of the accepted range
Widths == {WidthLow - 2, WidthLow - 1, WidthLow, WidthLow + 1,
           WidthHigh, WidthHigh + 1}

\* str.lower() of a suffix
Lower(suffix) == IF suffix = ".PNG" THEN ".png" ELSE suffix

\* mutant: only the lower end of the range is checked
WidthRejectedLow(width) == width < WidthLow

\* if args.width < 1 or args.width > 100
WidthRejected(width) == width < WidthLow \/ width > WidthHigh

\* mutant: every entry with the suffix is taken, regular file or not
IsPngAny(f) == Lower(f.suffix) = ".png"

\* f.is_file() and f.suffix.lower() == '.png'
IsPng(f) == f.is_file /\ Lower(f.suffix) = ".png"

\* png_files = [f for f in input_path.iterdir() if ...], from entry k on,
\* as the indices of the entries
RECURSIVE PngFiles(_, _)
PngFiles(entries, k) ==
    IF k > Len(entries) THEN <<>>
    ELSE (IF IsPng(entries[k]) THEN <<k>> ELSE <<>>) \o PngFiles(entries, k + 1)

\* img_file.stem + '_bordered.png'
BorderedName(k) == <<k, "_bordered.png">>

\* mutant: success as soon as one file succeeded
DirExitCodeAny(count, total) == IF count > 0 \/ total = 0 THEN 0 ELSE 1

\* sys.exit(0 if success_count == total_count else 1)
DirExitCode(count, total) == IF count = total THEN 0 ELSE 1

\* sys.exit(code)
SysExit(code) ==
    /\ exit_code' = code
    /\ cpc' = "exit"

\* one add_border_to_subject call of main or process_directory on the file
\* named name: it saves to out right before it returns True
CallAddBorder(name, file, out) ==
    LET ret == BorderReturn(file, args.color) IN
      /\ processed' = Append(processed, [file |-> name, ok |-> ret])
      /\ written' = IF ret THEN Append(written, out) ELSE written

\* main: the validation of the border width
MainValidate ==
    /\ cpc = "validate"
    /\ IF WidthRejected(args.width)
       THEN SysExit(1)
       ELSE /\ cpc' = IF args.input # NoArg THEN "single" ELSE "directory"
            /\ UNCHANGED exit_code
    /\ UNCHANGED <<args, fsys, png_files, idx, success_count, dir_result,
                   processed, written>>
    /\ UNCHANGED <<infile, border_color, border_width, bpc, bret, bout, bbox,
                   rings, batchVars, pipeVars>>

\* main: single file mode
MainSingle ==
    /\ cpc = "single"
    /\ IF fsys.kind = "missing"
       THEN /\ SysExit(1)
            /\ UNCHANGED <<processed, written>>
       ELSE LET success == BorderReturn(fsys.content, args.color)
            IN  /\ CallAddBorder(args.input, fsys.content, args.output)
                /\ SysExit(IF success THEN 0 ELSE 1)
    /\ UNCHANGED <<args, fsys, png_files, idx, success_count, dir_result>>
    /\ UNCHANGED <<infile, border_color, border_width, bpc, bret, bout, bbox,
                   rings, batchVars, pipeVars>>

\* main: directory mode up to the for loop of process_directory; iterdir()
\* of a path that is no directory raises, and the interpreter exits with 1
MainDirectory ==
    /\ cpc = "directory"
    /\ IF fsys.kind # "dir"
       THEN /\ SysExit(1)
            /\ UNCHANGED <<png_files, idx, success_count, dir_result>>
       ELSE LET files == PngFiles(fsys.entries, 1) IN
            /\ png_files' = files
            /\ IF files = <<>>
               THEN /\ dir_result' = <<0, 0>>
                    /\ SysExit(DirExitCode(0, 0))
                    /\ UNCHANGED <<idx, success_count>>
               ELSE /\ success_count' = 0
                    /\ idx' = 1
                    /\ cpc' = "for"
                    /\ UNCHANGED <<dir_result, exit_code>>
    /\ UNCHANGED <<args, fsys, processed, written>>
    /\ UNCHANGED <<infile, border_color, border_width, bpc, bret, bout, bbox,
                   rings, batchVars, pipeVars>>

\* process_directory: one round of "for img_file in png_files"
ProcessFile ==
    /\ cpc = "for" /\ idx <= Len(png_files)
    /\ LET k == png_files[idx]
           file == fsys.entries[k].content
       IN  /\ CallAddBorder(k, file, BorderedName(k))
           /\ success_count' =
                IF BorderReturn(file, args.color)
                THEN success_count + 1 ELSE success_count
    /\ idx' = idx + 1
    /\ UNCHANGED <<args, fsys, cpc, exit_code, png_files, dir_result>>
    /\ UNCHANGED <<infile, border_color, border_width, bpc, bret, bout, bbox,
                   rings, batchVars, pipeVars>>

\* process_directory returns (success_count, len(png_files)); main exits
DirectoryReturn ==
    /\ cpc = "for" /\ idx > Len(png_files)
    /\ dir_result' = <<success_count, Len(png_files)>>
    /\ SysExit(DirExitCode(success_count, Len(png_files)))
    /\ UNCHANGED <<args, fsys, png_files, idx, success_count, processed,
                   written>>
    /\ UNCHANGED <<infile, border_color, border_width, bpc, bret, bout, bbox,
                   rings, batchVars, pipeVars>>

\* main is not running
InitCliIdle ==
    /\ args = NoArg
    /\ fsys = [kind |-> "missing", content |-> Unreadable, entries |-> <<>>]
    /\ cpc = "none"
    /\ exit_code = NoCode
    /\ png_files = <<>>
    /\ idx = 0
    /\ success_count = 0
    /\ dir_result = NoResult
    /\ processed = <<>>
    /\ written = <<>>

InitBorderIdle ==
    /\ InitCliIdle
    /\ infile = NoFile
    /\ border_color = <<>>
    /\ border_width = 0
    /\ bpc = "none"
    /\ bret = FALSE
    /\ bout = NoFile
    /\ bbox = <<>>
    /\ rings = <<>>

(* ---------------------------- estimate_cost --------------------------- *)
\* gpu_prices, in cents per hour
GpuPrices ==
    ("RTX 4090" :> 69) @@ ("RTX 3090" :> 44) @@ ("A40" :> 79)
    @@ ("A100 40GB" :> 189) @@ ("A100 80GB" :> 249)

\* the default of gpu_prices.get, in cents per hour
DefaultRate == 69
\* seconds per hour
SecondsPerHour == 3600
\* cents per dollar
Cents == 100

\* mutant: a profile that is not in the table gets the cheapest rate
HourlyRateCheapest(name) ==
    IF name \in DOMAIN GpuPrices THEN GpuPrices[name] ELSE 44

\* gpu_prices.get(gpu_type, 0.69)
HourlyRate(name) ==
    IF name \in DOMAIN GpuPrices THEN GpuPrices[name] ELSE DefaultRate

\* 10 ** n
RECURSIVE Pow10(_)
Pow10(n) == IF n = 0 THEN 1 ELSE 10 * Pow10(n - 1)

\* the amounts of the computation are fractions <<numerator, denominator>>
\* in lowest terms
RECURSIVE GCD(_, _)
GCD(a, b) == IF b = 0 THEN a ELSE GCD(b, a % b)
Frac(a, b) == <<a \div GCD(a, b), b \div GCD(a, b)>>
Times(x, y) == Frac(x[1] * y[1], x[2] * y[2])
Over(x, y) == Frac(x[1] * y[2], x[2] * y[1])

\* round(x, digits) for x >= 0, as a count of units of 10 ** -digits: to
\* the nearest unit, a tie to the even one
Round(x, digits) ==
    LET scaled == x[1] * Pow10(digits)
        q == scaled \div x[2]
        r == scaled % x[2]
    IN  IF 2 * r < x[2] THEN q
        ELSE IF 2 * r > x[2] THEN q + 1
        ELSE IF q % 2 = 0 THEN q ELSE q + 1

NoEstimate == <<>>

\* the dict estimate_cost returns: hourly_rate in cents, estimated_hours
\* and total_cost in hundredths, cost_per_image in ten-thousandths
CostBreakdown(n, name, secs) ==
    LET hourly_rate == Frac(HourlyRate(name), Cents)
        total_seconds == Frac(n * secs, 1)
        total_hours == Over(total_seconds, Frac(SecondsPerHour, 1))
        total_cost == Times(total_hours, hourly_rate)
        cost_per_image == Over(total_cost, Frac(n, 1))
    IN  [num_images |-> n,
         gpu_type |-> name,
         estimated_hours |-> Round(total_hours, 2),
         hourly_rate |-> HourlyRate(name),
         total_cost |-> Round(total_cost, 2),
         cost_per_image |-> Round(cost_per_image, 4),
         avg_time_per_image |-> secs]

\* estimate_cost(num_images, gpu_type, avg_time_per_image); total_cost /
\* num_images raises ZeroDivisionError for num_images = 0
EstimateCost ==
    /\ epc = "call"
    /\ IF num_images = 0
       THEN /\ epc' = "raised"
            /\ UNCHANGED estimate
       ELSE /\ epc' = "returned"
            /\ estimate' = CostBreakdown(num_images, gpu_type,
                                         avg_time_per_image)
    /\ UNCHANGED <<num_images, gpu_type, avg_time_per_image>>
    /\ UNCHANGED <<max_workers, retry_attempts, sources, hasCallback, fate,
                   errs, poolVars, frameVars, histVars, mainVars>>
    /\ UNCHANGED <<pipeVars, borderVars>>

\* estimate_cost is not running
InitCostIdle ==
    /\ num_images = 0
    /\ gpu_type = "RTX 4090"
    /\ avg_time_per_image = 0
    /\ epc = "none"
    /\ estimate = NoEstimate

\* the arguments of the calls: the image counts up to MaxCostImages and
\* the 10,000 of main's example, the profiles of the table and names that
\* are not in it, times up to MaxCostTime seconds and the default of 8
ExampleImages == 10000
DefaultTime == 8
ImageCounts == (0..MaxCostImages) \cup {ExampleImages}
GpuTypes == DOMAIN GpuPrices \cup {"H100", "rtx 4090", ""}
ImageTimes == (0..MaxCostTime) \cup {DefaultTime}

(* ------------------------------ SpecBatch ----------------------------- *)
\* the fates under n attempts: one of them succeeds, or all of them raise
Fates(n) == (0..n - 1) \cup {Never}

\* process_batch is entered: nothing submitted, no worker busy
InitDispatch ==
    /\ queue = <<>>
    /\ future = [i \in 1..Len(sources) |-> Pending]
    /\ wpc = [w \in Workers |-> "idle"]
    /\ wtask = [w \in Workers |-> 0]
    /\ attempt = [w \in Workers |-> 0]
    /\ exc = [w \in Workers |-> NoExc]
    /\ calls = [i \in 1..Len(sources) |-> 0]
    /\ raised = [i \in 1..Len(sources) |-> <<>>]
    /\ slept = [i \in 1..Len(sources) |-> <<>>]
    /\ mainpc = "submit"
    /\ nsub = 0
    /\ yielded = {}
    /\ completed = 0
    /\ successful = <<>>
    /\ failed = <<>>
    /\ progress = <<>>

\* no generate_face_swap call is in progress
InitPipeIdle ==
    /\ gpc = "none"
    /\ source_upload = NoUpload
    /\ target_upload = NoUpload
    /\ prompt_id = <<>>
    /\ entry = NoHistory
    /\ img_info = <<>>
    /\ image_data = <<>>
    /\ ops = <<>>
    /\ elapsed = 0
    /\ history = NoHistory
    /\ listed_in_time = FALSE
    /\ outfile = <<>>

InitBatch ==
    /\ max_workers \in 1..MaxWorkers
    /\ retry_attempts \in 0..MaxBatchRetry
    /\ \E n \in 0..MaxSources : sources = SourceList(n)
    /\ errs = [i \in 1..Len(sources) |-> {ExceptionOf(i)}]
    /\ hasCallback \in BOOLEAN
    /\ fate \in [1..Len(sources) -> Fates(retry_attempts)]
    /\ InitDispatch
    /\ InitCostIdle
    /\ InitPipeIdle
    /\ InitBorderIdle
    /\ timeout = DefaultTimeout

NextBatch ==
    \/ Submit
    \/ NextCompleted
    \/ Progress
    \/ Return
    \/ \E w \in Workers : Take(w)
    \/ \E w \in Workers : ForEmpty(w)
    \/ \E w \in Workers : GenerateFaceSwap(w)
    \/ \E w \in Workers : Except(w)
    \/ \E w \in Workers : Wake(w)

SpecBatch == InitBatch /\ [][NextBatch]_vars

(* ------------------------------ SpecPool ------------------------------ *)
\* the default of retry_attempts
DefaultRetry == 3

\* a batch of a processor with the default retry_attempts, or with none
\* at all, and a progress callback, of any size and with any number of
\* pool threads
InitPool ==
    /\ max_workers \in 1..MaxWorkers
    /\ retry_attempts \in {0, DefaultRetry}
    /\ \E n \in 0..MaxSources : sources = SourceList(n)
    /\ errs = [i \in 1..Len(sources) |-> {ExceptionOf(i)}]
    /\ hasCallback = TRUE
    /\ fate \in [1..Len(sources) -> Fates(retry_attempts)]
    /\ InitDispatch
    /\ InitCostIdle
    /\ InitPipeIdle
    /\ InitBorderIdle
    /\ timeout = DefaultTimeout

\* a step of a pool thread
WorkerStep ==
    \E w \in Workers :
        Take(w) \/ ForEmpty(w) \/ GenerateFaceSwap(w) \/ Except(w) \/ Wake(w)

\* the batch with threads that are scheduled: every generate_face_swap
\* call and every sleep ends, and an idle thread takes queued work
SpecPool == InitPool /\ [][NextBatch]_vars /\ WF_vars(WorkerStep)

(* ------------------------------ SpecPaths ----------------------------- *)
\* the directories the source photos of a batch come from
Dirs == {"examples", "uploads"}

\* the source_faces lists a caller may give to process_batch: any paths in
\* any order, the same photo twice and photos of one name in two
\* directories among them
SourcePaths == { SourcePath(d, i) : d \in Dirs, i \in 1..MaxSources }
SourceLists == UNION { [1..n -> SourcePaths] : n \in 0..MaxSources }

\* a batch over any list of source paths, one attempt per source, every
\* call succeeding or raising
InitPaths ==
    /\ max_workers = MaxWorkers
    /\ retry_attempts = 1
    /\ sources \in SourceLists
    /\ errs = [i \in 1..Len(sources) |-> {ExceptionOf(i)}]
    /\ hasCallback = FALSE
    /\ fate \in [1..Len(sources) -> Fates(retry_attempts)]
    /\ InitDispatch
    /\ InitCostIdle
    /\ InitPipeIdle
    /\ InitBorderIdle
    /\ timeout = DefaultTimeout

\* the steps of such a batch: with one attempt there is no sleep, without
\* a callback no progress report
NextPaths ==
    \/ Submit
    \/ NextCompleted
    \/ Return
    \/ \E w \in Workers : Take(w)
    \/ \E w \in Workers : GenerateFaceSwap(w)
    \/ \E w \in Workers : Except(w)

SpecPaths == InitPaths /\ [][NextPaths]_vars

(* ------------------------------ SpecSingle ---------------------------- *)
\* one process_single call, run by a pool of one worker for a batch of one
\* source; a failing generate_face_swap call raises any of the exceptions
InitSingle ==
    /\ max_workers = 1
    /\ retry_attempts \in 0..MaxRetry
    /\ sources = SourceList(1)
    /\ errs = [i \in 1..Len(sources) |-> Exceptions]
    /\ hasCallback \in BOOLEAN
    /\ fate \in [1..Len(sources) -> Fates(retry_attempts)]
    /\ InitDispatch
    /\ InitCostIdle
    /\ InitPipeIdle
    /\ InitBorderIdle
    /\ timeout = DefaultTimeout

SpecSingle == InitSingle /\ [][NextBatch]_vars

(* ----------------------------- SpecPipeline --------------------------- *)
\* one process_single call whose generate_face_swap calls run operation by
\* operation against a server that may fail any request and finish the
\* job at any time with any outputs
InitPipeline ==
    /\ max_workers = 1
    /\ retry_attempts \in {0, MaxPipeRetry}
    /\ sources = SourceList(1)
    /\ errs = [i \in 1..Len(sources) |-> {}]
    /\ hasCallback = TRUE
    /\ fate = [i \in 1..Len(sources) |-> Never]
    /\ InitDispatch
    /\ InitCostIdle
    /\ InitPipeIdle
    /\ InitBorderIdle
    /\ timeout \in {0, MaxTimeout}

NextPipeline ==
    \/ Submit
    \/ NextCompleted
    \/ Progress
    \/ Return
    \/ \E w \in Workers : Take(w)
    \/ \E w \in Workers : ForEmpty(w)
    \/ \E w \in Workers : Except(w)
    \/ \E w \in Workers : Wake(w)
    \/ JobCompletes
    \/ \E w \in Workers : GenCall(w)
    \/ \E w \in Workers : UploadSource(w)
    \/ \E w \in Workers : UploadTarget(w)
    \/ \E w \in Workers : QueuePrompt(w)
    \/ \E w \in Workers : WaitStart(w)
    \/ \E w \in Workers : Poll(w)
    \/ \E w \in Workers : PollSleep(w)
    \/ \E w \in Workers : TimedOut(w)
    \/ \E w \in Workers : Extract(w)
    \/ \E w \in Workers : GetImage(w)
    \/ \E w \in Workers : WriteFile(w)

SpecPipeline == InitPipeline /\ [][NextPipeline]_vars

(* ------------------------------ SpecBorder ---------------------------- *)
\* one add_border_to_subject call on any input file, colour and width
InitBorder ==
    /\ infile \in InputFiles
    /\ border_color \in BorderColors
    /\ border_width \in 0..MaxBorder
    /\ bpc = "call"
    /\ bret = FALSE
    /\ bout = NoFile
    /\ bbox = <<>>
    /\ rings = <<>>
    /\ InitCliIdle
    /\ max_workers = 1
    /\ retry_attempts = 0
    /\ sources = <<>>
    /\ errs = <<>>
    /\ hasCallback = FALSE
    /\ fate = <<>>
    /\ InitDispatch
    /\ InitCostIdle
    /\ InitPipeIdle
    /\ timeout = DefaultTimeout

NextBorder == AddBorder

SpecBorder == InitBorder /\ [][NextBorder]_vars

(* ------------------------------ SpecCost ------------------------------ *)
\* processor.estimate_cost(...) on a processor that runs no batch
InitCost ==
    /\ max_workers \in 1..MaxWorkers
    /\ retry_attempts \in 0..MaxRetry
    /\ sources = <<>>
    /\ errs = <<>>
    /\ hasCallback = FALSE
    /\ fate = <<>>
    /\ num_images \in ImageCounts
    /\ gpu_type \in GpuTypes
    /\ avg_time_per_image \in ImageTimes
    /\ epc = "call"
    /\ estimate = NoEstimate
    /\ InitDispatch
    /\ InitPipeIdle
    /\ InitBorderIdle
    /\ timeout = DefaultTimeout

NextCost == EstimateCost

SpecCost == InitCost /\ [][NextCost]_vars

(* ------------------------------ SpecMain ------------------------------ *)
\* python add_border.py (-i input | -d directory) -o output -c color -w width
\* after parse_args: one of -i and -d is given
InitMain ==
    /\ \E mode \in {"input", "directory"}, c \in BorderColors, w \in Widths :
         args = [input |-> IF mode = "input" THEN "input" ELSE NoArg,
                 directory |-> IF mode = "directory" THEN "directory" ELSE NoArg,
                 output |-> "output", color |-> c, width |-> w]
    /\ fsys \in FileSystems
    /\ cpc = "validate"
    /\ exit_code = NoCode
    /\ png_files = <<>>
    /\ idx = 0
    /\ success_count = 0
    /\ dir_result = NoResult
    /\ processed = <<>>
    /\ written = <<>>
    /\ infile = NoFile
    /\ border_color = <<>>
    /\ border_width = 0
    /\ bpc = "none"
    /\ bret = FALSE
    /\ bout = NoFile
    /\ bbox = <<>>
    /\ rings = <<>>
    /\ max_workers = 1
    /\ retry_attempts = 0
    /\ sources = <<>>
    /\ errs = <<>>
    /\ hasCallback = FALSE
    /\ fate = <<>>
    /\ InitDispatch
    /\ InitCostIdle
    /\ InitPipeIdle
    /\ timeout = DefaultTimeout

NextMain ==
    \/ MainValidate
    \/ MainSingle
    \/ MainDirectory
    \/ ProcessFile
    \/ DirectoryReturn

SpecMain == InitMain /\ [][NextMain]_vars

(* ---------------------------- SpecSilhouette -------------------------- *)
\* the silhouette script is run once on any input file, with a colour that
\* is an RGB triple
InitSilhouette ==
    /\ InitBorder
    /\ hex_to_rgb(border_color) # <<>>

NextSilhouette == AddSilhouette

SpecSilhouette == InitSilhouette /\ [][NextSilhouette]_vars

(* ------------------------------- claims ------------------------------- *)
\* a future holding process_single's return value
Done(i) == future[i].kind # "pending"
Success(i) == future[i].kind = "result" /\ future[i].val[1]
Failure(i) == future[i].kind = "result" /\ ~future[i].val[1]

\* C1: with retry_attempts = N >= 1, process_single never makes more than N
\* calls of generate_face_swap; if every call raises it makes exactly N and
\* returns (False, source, text of the error the N-th call raised); if
\* attempt k < N succeeds it returns (True, source, output_path) after
\* k + 1 calls and makes no further call.
C1_RetryBound ==
    retry_attempts >= 1 =>
      \A i \in Items :
        /\ calls[i] <= retry_attempts
        /\ Done(i) =>
             IF fate[i] >= retry_attempts
             THEN /\ calls[i] = retry_attempts
                  /\ Len(raised[i]) = retry_attempts
                  /\ future[i] = Result(<<FALSE, sources[i],
                                          raised[i][retry_attempts].msg>>)
             ELSE /\ calls[i] = fate[i] + 1
                  /\ future[i] = Result(<<TRUE, sources[i],
                                          OutputPath(OutputDir, sources[i])>>)

\* a call that exhausted three attempts whose last error differs from the
\* first, and the batch returned
C1_Witness ==
    /\ retry_attempts = 3
    /\ mainpc = "returned"
    /\ Failure(1)
    /\ Len(raised[1]) = 3
    /\ raised[1][1] # raised[1][3]
    /\ raised[1][2] # raised[1][3]

\* C2: the k-th sleep of a process_single call lasts 2^(k-1) seconds (it
\* follows failed attempt k-1); a sleep follows only a failed attempt that
\* is not the last allowed one, and each attempt after attempt 0 starts
\* only after the sleep for the attempt before it; a finished call slept
\* exactly once per call but the last.
C2_Backoff ==
    \A i \in Items :
      /\ \A k \in 1..Len(slept[i]) : slept[i][k] = 2 ^ (k - 1)
      /\ Len(slept[i]) <= Len(raised[i])
      /\ Len(slept[i]) < retry_attempts \/ slept[i] = <<>>
      /\ calls[i] <= Len(slept[i]) + 1
      /\ Done(i) /\ calls[i] >= 1 => Len(slept[i]) = calls[i] - 1
      /\ calls[i] = 0 => slept[i] = <<>>

\* attempts 0 and 1 failed, attempt 2 succeeded: slept 1 s, then 2 s
C2_Witness ==
    /\ retry_attempts = 3
    /\ fate[1] = 2
    /\ Success(1)
    /\ slept[1] = <<1, 2>>

\* the sources every call for which raises
AlwaysFail == { i \in Items : fate[i] = Never }

\* C3: when process_batch returns for a batch in which every source either
\* always fails or succeeds on one of its attempts, 'failed' has as many
\* entries as there are always-failing sources and 'successful' as many as
\* there are others, whatever the worker count and the interleaving.
C3_FailedAndSuccessful ==
    mainpc = "returned"
    => /\ \A i \in Items : fate[i] = Never \/ fate[i] < retry_attempts
       /\ Len(failed) = Cardinality(AlwaysFail)
       /\ Len(successful) = Len(sources) - Cardinality(AlwaysFail)

\* two workers, one source that always fails and one that succeeds
C3_Witness ==
    /\ mainpc = "returned"
    /\ max_workers = 2
    /\ retry_attempts >= 1
    /\ Len(sources) = 2
    /\ fate[1] = Never /\ fate[2] = 0
    /\ Len(failed) = 1 /\ Len(successful) = 1

\* C4: with a progress callback, the k-th call of the callback has
\* completed = k and total = N; a call is made once after each completion
\* (never ahead of the completions collected, never more than one behind),
\* and when process_batch returns exactly N calls were made, the last with
\* completed = N.
C4_Progress ==
    hasCallback =>
      /\ \A k \in 1..Len(progress) :
            progress[k][1] = k /\ progress[k][2] = Len(sources)
      /\ Len(progress) <= completed
      /\ completed <= Len(progress) + 1
      /\ completed <= Cardinality({ i \in Items : Done(i) })
      /\ mainpc \in {"as_completed", "exit", "returned"}
            => Len(progress) = completed
      /\ mainpc = "returned" => Len(progress) = Len(sources)

\* a batch of two returned after two callbacks, the second source
\* collected before the first
C4_Witness ==
    /\ hasCallback
    /\ mainpc = "returned"
    /\ Len(progress) = 2
    /\ progress[2][1] = 2
    /\ ~Success(1) /\ Success(2)
    /\ successful # <<>> /\ failed # <<>>
    /\ progress[1][3] = 1

\* C5: no failure of an item aborts process_batch: no exception reaches the
\* main thread, the only state in which nothing can happen any more is the
\* one after process_batch returned, and then every item has a result,
\* every failed item is in 'failed' with its error, and the two lists hold
\* N entries.
C5_NoAbort ==
    /\ mainpc # "raised"
    /\ \A i \in Items : future[i].kind # "exception"
    /\ ~ENABLED NextBatch => mainpc = "returned"
    /\ mainpc = "returned" =>
         /\ \A i \in Items : Done(i)
         /\ \A i \in Items :
              Failure(i) => \E k \in 1..Len(failed) :
                 failed[k] = [source |-> sources[i], error |-> future[i].val[3]]
         /\ Len(successful) + Len(failed) = Len(sources)

\* a returned batch in which a source exhausted its retries, and another
\* source, taken from the queue after it, succeeded
C5_Witness ==
    /\ mainpc = "returned"
    /\ Len(sources) = 2
    /\ max_workers = 1
    /\ retry_attempts >= 1
    /\ Failure(1) /\ calls[1] = retry_attempts
    /\ Success(2)

\* the RuntimeErrors among the exceptions the calls for item i raised
RuntimeErrorAt(i) == { k \in 1..Len(raised[i]) : raised[i][k] = RuntimeError }

\* C6 as claimed: after a RuntimeError for missing image output
\* process_single makes no further attempt.
C6_Original ==
    \A i \in Items : \A k \in RuntimeErrorAt(i) : calls[i] <= k

\* C6 as amended: a RuntimeError for missing image output is retried like
\* any other exception: a process_single call whose k-th attempt raised it
\* ends only after a further attempt when k < retry_attempts, and ends
\* with the Failure carrying the RuntimeError's text when k = retry_attempts.
C6_RuntimeErrorRetried ==
    \A i \in Items : \A k \in RuntimeErrorAt(i) :
      /\ k <= retry_attempts
      /\ Done(i) /\ k < retry_attempts => calls[i] > k
      /\ Done(i) /\ k = retry_attempts =>
           future[i] = Result(<<FALSE, sources[i], RuntimeError.msg>>)
      /\ wpc[1] = "sleep" /\ Len(raised[i]) = k => k < retry_attempts

\* the first attempt found no image output, the second one succeeded
C6_Witness ==
    /\ retry_attempts = 2
    /\ raised[1] = <<RuntimeError>>
    /\ calls[1] = 2
    /\ Success(1)

\* the history polls among the operations of the current call
Polls == { k \in 1..Len(ops) : ops[k].op = "history" }

\* the latest of them
LastPoll == CHOOSE k \in Polls : \A j \in Polls : j <= k

\* C7: wait_for_completion sleeps PollInterval = 1 second between polls
\* whatever the number of polls made; it returns only out of a poll that
\* found prompt_id in the history, with that poll's entry; it raises
\* TimeoutError only once timeout seconds have passed, and then no poll of
\* the call found the job.
C7_Wait ==
    /\ [](gpc \in {"extract", "get_image", "write"} =>
            /\ Polls # {}
            /\ ops[LastPoll].ok
            /\ ops[LastPoll].res.present
            /\ ops[LastPoll].arg = prompt_id
            /\ entry = ops[LastPoll].res
            /\ \A k \in Polls : k < LastPoll => ~ops[k].res.present)
    /\ [][/\ gpc = "sleep" /\ gpc' = "while" => elapsed' = elapsed + 1
          /\ gpc = "while" /\ gpc' = "sleep" =>
               elapsed < timeout /\ ~history.present
          /\ gpc = "while" /\ exc'[1].type = "TimeoutError" =>
               /\ elapsed >= timeout
               /\ \A k \in Polls : ops[k].ok /\ ~ops[k].res.present]_vars

\* TimeoutError after two polls that both missed the job
C7_Witness ==
    /\ wpc[1] = "except"
    /\ exc[1] = TimeoutError(2)
    /\ Cardinality(Polls) = 2

\* an output node that holds at least one image
HasImage(node) == node.key /\ node.n >= 1

\* C8: the operations of a successful generate_face_swap call are, in this
\* order: the upload of the source, the upload of the target, the submission
\* of a workflow whose two LoadImage nodes name the two uploads, one or more
\* polls of which only the last finds the job, the fetch of exactly one
\* image, the first image of the first output node that has any, and the
\* write of the fetched bytes to the output path.
C8_Order ==
    \A i \in Items : Success(i) =>
      LET n == Len(ops) IN
      /\ n >= 6
      /\ ops[1] \in { Op("upload", sources[i], TRUE, nm) :
                        nm \in ServerNames(sources[i]) }
      /\ ops[2] \in { Op("upload", TargetBody, TRUE, nm) :
                        nm \in ServerNames(TargetBody) }
      /\ ops[3].op = "prompt" /\ ops[3].ok
      /\ ops[3].arg.node1_image = ops[1].res
      /\ ops[3].arg.node2_image = ops[2].res
      /\ \A k \in 4..n - 2 :
           /\ ops[k].op = "history" /\ ops[k].ok /\ ops[k].arg = ops[3].res
           /\ ops[k].res.present <=> k = n - 2
      /\ ops[n - 1].op = "view" /\ ops[n - 1].ok
      /\ LET out == ops[n - 2].res.outputs
             img == ops[n - 1].arg
         IN  /\ img[2] = 1
             /\ img[1] \in 1..Len(out)
             /\ HasImage(out[img[1]])
             /\ \A j \in 1..img[1] - 1 : ~HasImage(out[j])
      /\ ops[n] = Op("write", OutputPath(OutputDir, sources[i]), TRUE,
                     ops[n - 1].res)
      /\ ops[n - 1].res = Content(ops[n - 1].arg)
      /\ outfile = ops[n - 1].res

\* a successful call that polled twice and took the image of the second
\* output node, the first having an empty image list
C8_Witness ==
    /\ Success(1)
    /\ Len(ops) = 7
    /\ ops[1].res # ops[2].res
    /\ ~ops[4].res.present
    /\ ops[5].res.outputs = <<[key |-> TRUE, n |-> 0], [key |-> TRUE, n |-> 2]>>
    /\ ops[6].arg = <<2, 1>>

\* the last operation of the current call is a poll that found the job
\* finished without any image, and the outputs have been looked through
NoImageFound ==
    /\ ops # <<>>
    /\ ops[Len(ops)].op = "history"
    /\ ops[Len(ops)].ok
    /\ ops[Len(ops)].res.present
    /\ \A j \in 1..Len(ops[Len(ops)].res.outputs) :
          ~HasImage(ops[Len(ops)].res.outputs[j])
    /\ gpc # "extract"

\* C9: when the finished job's outputs hold no image (no node has an
\* 'images' key, or every such list is empty), generate_face_swap raises
\* RuntimeError without having fetched an image or written the output file.
C9_NoImage ==
    NoImageFound =>
      /\ gpc = "none"
      /\ Len(raised[1]) = calls[1]
      /\ raised[1][calls[1]] = RuntimeError
      /\ \A k \in 1..Len(ops) : ops[k].op \notin {"view", "write"}
      /\ calls[1] = 1 => outfile = <<>>

\* RuntimeError for outputs of two nodes, one with an empty image list and
\* one without the key
C9_Witness ==
    /\ NoImageFound
    /\ wpc[1] = "except"
    /\ exc[1] = RuntimeError
    /\ ops[Len(ops)].res.outputs = <<[key |-> TRUE, n |-> 0],
                                     [key |-> FALSE, n |-> 0]>>

\* an RGBA file none of whose pixels has alpha > 0
EmptyAlpha(file) ==
    file.mode = "RGBA" /\ \A p \in DOMAIN file.px : ~(file.px[p].a > 0)

\* C10: for an RGBA image without a pixel of alpha > 0, add_border_to_subject
\* returns True, whatever the border width and colour, and the file it
\* writes has the input's size and, pixel for pixel, the input's values.
C10_EmptyAlphaUnchanged ==
    bpc = "done" /\ EmptyAlpha(infile) =>
      /\ bret = TRUE
      /\ bout.mode = "RGBA"
      /\ bout.w = infile.w /\ bout.h = infile.h
      /\ \A p \in Pixels(infile.w, infile.h) : bout.px[p] = infile.px[p]

\* a fully transparent 3 x 3 image, a colour that is no hex code, width 2
C10_Witness ==
    /\ bpc = "done"
    /\ EmptyAlpha(infile)
    /\ infile.w = 3 /\ infile.h = 3
    /\ border_width = 2
    /\ border_color = <<"r", "e", "d">>
    /\ bret = TRUE
    /\ bout = infile

\* the pixels of the subject: those with alpha > 0
Subject(file) == { p \in Pixels(file.w, file.h) : file.px[p].a > 0 }

\* C11: for an image with a pixel of alpha > 0, the bbox add_border_to_subject
\* gets from get_subject_bbox is (left, top, right, bottom) with every such
\* pixel inside it and a pixel of alpha > 0 in its first and last column and
\* in its first and last row; it is None exactly when no pixel has alpha > 0.
C11_MinimalBbox ==
    bpc = "done" /\ infile.mode # "unreadable" =>
      /\ bbox = <<>> <=> Subject(infile) = {}
      /\ bbox # <<>> =>
           /\ \A p \in Subject(infile) :
                 /\ bbox[1] <= p[1] /\ p[1] <= bbox[3]
                 /\ bbox[2] <= p[2] /\ p[2] <= bbox[4]
           /\ \E p \in Subject(infile) : p[1] = bbox[1]
           /\ \E p \in Subject(infile) : p[1] = bbox[3]
           /\ \E p \in Subject(infile) : p[2] = bbox[2]
           /\ \E p \in Subject(infile) : p[2] = bbox[4]

\* a 2 x 4 image whose subject is the two pixels (1, 1) and (0, 3)
C11_Witness ==
    /\ bpc = "done"
    /\ infile.mode = "RGBA" /\ infile.w = 2 /\ infile.h = 4
    /\ Subject(infile) = {<<1, 1>>, <<0, 3>>}
    /\ bbox = <<0, 1, 1, 3>>

\* C12: every rectangle the loop hands to draw.rectangle, for ring
\* 0 <= i < border_width, has 0 <= x0 <= x1 <= width - 1 and
\* 0 <= y0 <= y1 <= height - 1, wherever the subject lies; a successful
\* call on an image with a subject draws one rectangle per ring.
C12_RingsClamped ==
    bpc = "done" =>
      /\ \A k \in 1..Len(rings) :
            /\ 0 <= rings[k][1] /\ rings[k][1] <= rings[k][3]
            /\ rings[k][3] <= infile.w - 1
            /\ 0 <= rings[k][2] /\ rings[k][2] <= rings[k][4]
            /\ rings[k][4] <= infile.h - 1
      /\ bret /\ bbox # <<>> => Len(rings) = border_width

\* a subject in the corner of a 3 x 3 image, width 2: ring 1 is clamped at
\* the left and at the top
C12_Witness ==
    /\ bpc = "done" /\ bret
    /\ infile.w = 3 /\ infile.h = 3
    /\ bbox = <<0, 0, 0, 0>>
    /\ border_width = 2
    /\ rings = << <<0, 0, 0, 0>>, <<0, 0, 1, 1>> >>

\* the absolute value of an integer
Abs(n) == IF n < 0 THEN -n ELSE n

\* the cells outside the mask within n king's moves of a cell of the mask
Ring(file, n) ==
    { p \in Pixels(file.w, file.h) \ Subject(file) :
        \E q \in Subject(file) : Abs(p[1] - q[1]) <= n /\ Abs(p[2] - q[2]) <= n }

\* the cells whose value the run changed
Painted == { p \in Pixels(infile.w, infile.h) : bout.px[p] # infile.px[p] }

\* C13: the silhouette strategy paints exactly dilate(mask, width) minus
\* mask, the cells outside the mask within width 8-connected steps of it,
\* with the colour at full opacity: the painted cells are disjoint from the
\* mask, contain the region of the next smaller width, and every cell of
\* the mask and every other unpainted cell keeps its value.
C13_Silhouette ==
    bpc = "done" /\ infile.mode # "unreadable" =>
      /\ bret
      /\ Painted = Ring(infile, border_width)
      /\ Painted \cap Subject(infile) = {}
      /\ border_width > 0 =>
           BorderRegion(infile, border_width - 1) \subseteq Painted
      /\ \A p \in Painted :
            bout.px[p] = [rgb |-> hex_to_rgb(border_color), a |-> 255]
      /\ \A p \in Pixels(infile.w, infile.h) \ Ring(infile, border_width) :
            bout.px[p] = infile.px[p]

\* one subject pixel in the middle of a 3 x 3 image, width 1: the eight
\* cells around it are painted, the diagonal ones included
C13_Witness ==
    /\ bpc = "done"
    /\ infile.w = 3 /\ infile.h = 3
    /\ Subject(infile) = {<<1, 1>>}
    /\ border_width = 1
    /\ Painted = Pixels(3, 3) \ {<<1, 1>>}

\* the width lies in [1, 100]
WidthInRange == 1 <= args.width /\ args.width <= 100

\* C14: a run given a width below 1 or above 100 exits with status 1
\* straight from the validation, in single-file and in directory mode,
\* having called add_border_to_subject on no file and written no output;
\* a width in [1, 100] passes the validation and the run goes on to its
\* mode's processing.
C14_WidthValidated ==
    /\ [](cpc = "exit" /\ ~WidthInRange =>
            exit_code = 1 /\ processed = <<>> /\ written = <<>>
            /\ png_files = <<>> /\ dir_result = NoResult)
    /\ [][cpc = "validate" =>
            /\ ~WidthInRange => cpc' = "exit"
            /\ WidthInRange /\ args.input # NoArg => cpc' = "single"
            /\ WidthInRange /\ args.input = NoArg => cpc' = "directory"]_vars

\* width 101 rejected in directory mode over a directory with a PNG file
C14_Witness ==
    /\ cpc = "exit" /\ exit_code = 1
    /\ args.width = 101 /\ args.directory # NoArg
    /\ fsys.kind = "dir" /\ Len(fsys.entries) > 0 /\ IsPng(fsys.entries[1])
    /\ processed = <<>>

\* the run got past the validation and found its input
Ran ==
    /\ WidthInRange
    /\ IF args.input # NoArg THEN fsys.kind # "missing" ELSE fsys.kind = "dir"

\* C15: main exits with 0 or 1; with 0 exactly when the width was accepted,
\* the input existed and every add_border_to_subject call of the run
\* returned True: the one call of single-file mode, or in directory mode
\* every file processed, where success_count == total_count; any failed
\* file of a batch and a missing input file or directory give 1.
C15_ExitCode ==
    cpc = "exit" =>
      /\ exit_code \in {0, 1}
      /\ exit_code = 0 <=>
           Ran /\ \A j \in 1..Len(processed) : processed[j].ok
      /\ Ran /\ args.input # NoArg => Len(processed) = 1
      /\ Ran /\ args.input = NoArg =>
           (exit_code = 0 <=> dir_result[1] = dir_result[2])
      /\ fsys.kind = "missing" => exit_code = 1

\* a directory of two PNG files of which the second fails: status 1
C15_Witness ==
    /\ cpc = "exit" /\ exit_code = 1
    /\ Ran /\ args.input = NoArg
    /\ Len(processed) = 2
    /\ processed[1].ok /\ ~processed[2].ok
    /\ dir_result = <<1, 2>>

\* the entries of the directory that are regular files with a .png suffix
\* in either case
PngEntries ==
    { k \in 1..Len(fsys.entries) :
        /\ fsys.entries[k].is_file
        /\ fsys.entries[k].suffix \in {".png", ".PNG"} }

\* C16: when process_directory has returned, add_border_to_subject was
\* called once on each of the K regular files with a .png suffix (in either
\* case) and on no other entry, also after calls that failed, and the
\* result is (success_count, K) with success_count the number of calls that
\* returned True, so 0 <= success_count <= K.
C16_Directory ==
    cpc = "exit" /\ dir_result # NoResult =>
      /\ { processed[j].file : j \in 1..Len(processed) } = PngEntries
      /\ Len(processed) = Cardinality(PngEntries)
      /\ dir_result[2] = Cardinality(PngEntries)
      /\ dir_result[1] =
           Cardinality({ j \in 1..Len(processed) : processed[j].ok })
      /\ 0 <= dir_result[1] /\ dir_result[1] <= dir_result[2]

\* a directory of a failing PNG file followed by a good one: both are
\* processed, the result is (1, 2)
C16_Witness ==
    /\ cpc = "exit" /\ dir_result = <<1, 2>>
    /\ Len(processed) = 2
    /\ ~processed[1].ok /\ processed[2].ok

\* C17: estimate_cost takes the hourly rate from the table for the five
\* profiles in it and 0.69 for every other name, so that for an unknown
\* profile hourly_rate, estimated_hours, total_cost and cost_per_image are
\* those of "RTX 4090" for the same num_images >= 1 and time; the call
\* leaves the processor and its own arguments unchanged.
C17_EstimateCost ==
    /\ [](epc = "returned" =>
            /\ num_images >= 1
            /\ estimate.hourly_rate =
                 CASE gpu_type = "RTX 4090" -> 69
                   [] gpu_type = "RTX 3090" -> 44
                   [] gpu_type = "A40" -> 79
                   [] gpu_type = "A100 40GB" -> 189
                   [] gpu_type = "A100 80GB" -> 249
                   [] OTHER -> 69
            /\ gpu_type \notin DOMAIN GpuPrices =>
                 LET rtx == CostBreakdown(num_images, "RTX 4090",
                                          avg_time_per_image)
                 IN  /\ estimate.hourly_rate = rtx.hourly_rate
                     /\ estimate.estimated_hours = rtx.estimated_hours
                     /\ estimate.total_cost = rtx.total_cost
                     /\ estimate.cost_per_image = rtx.cost_per_image)
    /\ [][epc = "call" =>
            UNCHANGED <<max_workers, retry_attempts, num_images, gpu_type,
                        avg_time_per_image>>]_vars

\* 10,000 images at 8 s on the unknown profile "H100": 22.22 hours at
\* 0.69 an hour, 15.33 in total, 0.0015 per image
C17_Witness ==
    /\ epc = "returned"
    /\ gpu_type = "H100" /\ num_images = 10000 /\ avg_time_per_image = 8
    /\ estimate.hourly_rate = 69
    /\ estimate.estimated_hours = 2222
    /\ estimate.total_cost = 1533
    /\ estimate.cost_per_image = 15

\* the requests a pool thread is executing process_single for
Running == { i \in Items : \E w \in DOMAIN wpc : wpc[w] # "idle" /\ wtask[w] = i }

\* request i waits in the executor's queue
Queued(i) == \E k \in 1..Len(queue) : queue[k] = i

\* C18: with max_workers = W no more than W process_single calls execute
\* at any time, each for a different request; a thread takes a request, the
\* oldest queued one, only when it is idle, and stays with it through all
\* its attempts and sleeps until the call has given the future its result;
\* and with threads that keep being scheduled every queued request is
\* eventually taken: whenever requests wait in the queue, a time comes when
\* none does.
C18_WorkerPool ==
    /\ [](/\ Cardinality(Running) <= max_workers
          /\ \A v, w \in DOMAIN wpc :
                wpc[v] # "idle" /\ wpc[w] # "idle" /\ wtask[v] = wtask[w]
                => v = w)
    /\ [][\A w \in DOMAIN wpc :
            /\ wpc[w] # "idle" =>
                 \/ wtask'[w] = wtask[w] /\ wpc'[w] # "idle"
                    /\ future'[wtask[w]] = Pending
                 \/ wpc'[w] = "idle" /\ future[wtask[w]] = Pending
                    /\ future'[wtask[w]] # Pending
            /\ wpc[w] = "idle" /\ wpc'[w] # "idle" =>
                 /\ queue # <<>> /\ wtask'[w] = Head(queue)
                 /\ queue' = Tail(queue)]_vars
    /\ (\E i \in Items : Queued(i)) ~> (\A i \in Items : ~Queued(i))

\* one thread, two requests: the first is in its backoff sleep while the
\* second still waits in the queue
C18_Witness ==
    /\ max_workers = 1 /\ Len(sources) = 2
    /\ wpc[1] = "sleep" /\ wtask[1] = 1
    /\ queue = <<2>>
    /\ Running = {1}

\* s is an initial part of t
IsPrefix(s, t) == Len(s) <= Len(t) /\ SubSeq(t, 1, Len(s)) = s

\* the result aggregate of process_batch
Aggregate == <<completed, successful, failed>>

\* C19: the aggregate and the callback have one writer, the main thread in
\* its as_completed loop. A step changes the aggregate only as one round of
\* that loop, counting one completion and appending its one entry to one
\* list with no pool thread taking part; a callback is made only by the
\* main thread between two such rounds, with the aggregate as the round
\* before left it, so that no two callbacks overlap; and no update is
\* lost: the counter is the number of futures collected and of entries.
C19_Serialized ==
    /\ [](/\ completed = Cardinality(yielded)
          /\ completed = Len(successful) + Len(failed)
          /\ mainpc = "callback" => Len(progress) = completed - 1)
    /\ [][Aggregate' # Aggregate =>
            /\ mainpc = "as_completed"
            /\ completed' = completed + 1
            /\ IsPrefix(successful, successful') /\ IsPrefix(failed, failed')
            /\ Len(successful') + Len(failed')
                 = Len(successful) + Len(failed) + 1
            /\ UNCHANGED <<frameVars, poolVars, progress>>]_vars
    /\ [][progress' # progress =>
            /\ mainpc = "callback" /\ mainpc' = "as_completed"
            /\ progress' = Append(progress, <<completed, Len(sources),
                                              Len(successful), Len(failed)>>)
            /\ UNCHANGED <<Aggregate, frameVars, poolVars>>]_vars

\* the callback for the first completion is due while a pool thread is in
\* the middle of the other request
C19_Witness ==
    /\ mainpc = "callback" /\ completed = 1
    /\ max_workers = 2
    /\ \E w \in DOMAIN wpc : wpc[w] = "except"

\* the entries of a list for a source
EntriesOf(list, src) == { k \in 1..Len(list) : list[k].source = src }

\* C20: every progress callback is given successCount + failureCount =
\* completedCount; no request ever has more than one entry in the two lists
\* together, and when process_batch returns each of the N requests has
\* exactly one, so that len(successful) + len(failed) = N.
C20_ExactlyOnce ==
    /\ \A k \in 1..Len(progress) :
          progress[k][3] + progress[k][4] = progress[k][1]
    /\ \A i \in Items :
          Cardinality(EntriesOf(successful, sources[i]))
          + Cardinality(EntriesOf(failed, sources[i])) <= 1
    /\ mainpc = "returned" =>
          /\ \A i \in Items :
                Cardinality(EntriesOf(successful, sources[i]))
                + Cardinality(EntriesOf(failed, sources[i])) = 1
          /\ Len(successful) + Len(failed) = Len(sources)

\* a batch of two with a callback returned: one entry in each list
C20_Witness ==
    /\ mainpc = "returned" /\ hasCallback
    /\ Len(sources) = 2
    /\ Len(successful) = 1 /\ Len(failed) = 1
    /\ successful[1].source # failed[1].source
    /\ progress[2] = <<2, 2, 1, 1>>

\* C21: within one generate_face_swap call a failed request (upload, submit,
\* poll or fetch) is the last operation of the call: it is not issued again
\* and no later step runs, so nothing is written; the call has ended with
\* HTTPError handed to process_single; each step is issued at most once
\* (the polls apart) and in the pipeline's order; and every call
\* process_single makes starts with no locals and no operations, its first
\* operation being the upload of the source.
C21_NoInternalRetry ==
    /\ [](\A i \in Items : \A k \in 1..Len(ops) :
            /\ ~ops[k].ok =>
                  /\ k = Len(ops)
                  /\ gpc = "none"
                  /\ ops[k].op # "write"
                  /\ Len(raised[i]) = calls[i]
                  /\ raised[i][calls[i]] = HTTPError
                  /\ ~Success(i)
            /\ ops[k].op = "upload" =>
                  /\ k <= 2
                  /\ ops[k].arg = IF k = 1 THEN sources[i] ELSE TargetBody
            /\ ops[k].op = "prompt" => k = 3
            /\ ops[k].op = "view" =>
                  /\ k > 4
                  /\ ops[k - 1].op = "history"
            /\ ops[k].op = "write" =>
                  /\ k = Len(ops)
                  /\ ops[k - 1].op = "view")
    /\ [][\A w \in Workers :
            wpc[w] = "for" /\ wpc'[w] = "call" =>
              /\ gpc' = "upload_source"
              /\ ops' = <<>>
              /\ source_upload' = NoUpload /\ target_upload' = NoUpload
              /\ prompt_id' = <<>> /\ ~history'.present]_vars

\* a second call, made after the first raised HTTPError, has uploaded the
\* source again and failed on the upload of the target
C21_Witness ==
    /\ calls[1] = 2
    /\ raised[1] = <<HTTPError, HTTPError>>
    /\ Len(ops) = 2
    /\ ops[1] \in { Op("upload", sources[1], TRUE, nm) :
                      nm \in ServerNames(sources[1]) }
    /\ ops[2] = Op("upload", TargetBody, FALSE, NoUpload.name)

\* the bounding box of the subject: its least and greatest column and row
BoundingBox(file) ==
    LET S == Subject(file) IN
    [left   |-> Min({ p[1] : p \in S }), top    |-> Min({ p[2] : p \in S }),
     right  |-> Max({ p[1] : p \in S }), bottom |-> Max({ p[2] : p \in S })]

\* the pixels on the outline of the bounding box expanded by i pixels on
\* all sides and clamped to the image
Outline(file, i) ==
    LET b  == BoundingBox(file)
        x0 == Max({0, b.left - i})
        y0 == Max({0, b.top - i})
        x1 == Min({file.w - 1, b.right + i})
        y1 == Min({file.h - 1, b.bottom + i})
    IN  { p \in Pixels(file.w, file.h) :
            /\ x0 <= p[1] /\ p[1] <= x1 /\ y0 <= p[2] /\ p[2] <= y1
            /\ p[1] \in {x0, x1} \/ p[2] \in {y0, y1} }

\* C22: for a readable image with a subject, a border colour that parses
\* and a width w in [1, 100], the file written has the size of the input,
\* every pixel on the outline of the bounding box expanded by some i in
\* [0, w) and clamped to the image has the border colour at alpha 255, and
\* every other pixel has its input RGBA value, among them every pixel
\* strictly inside the bounding box and every pixel more than w - 1 pixels
\* outside it.
C22_BorderExact ==
    /\ bpc = "done" /\ infile.mode # "unreadable" /\ Subject(infile) # {}
    /\ border_width \in WidthLow..WidthHigh
    /\ hex_to_rgb(border_color) # <<>>
    =>
    LET b == BoundingBox(infile)
        colour == [rgb |-> hex_to_rgb(border_color), a |-> 255]
    IN  /\ bret
        /\ bout.mode = "RGBA" /\ bout.w = infile.w /\ bout.h = infile.h
        /\ \A p \in Pixels(infile.w, infile.h) :
              /\ bout.px[p] =
                    IF \E i \in 0..border_width - 1 : p \in Outline(infile, i)
                    THEN colour ELSE infile.px[p]
              /\ /\ b.left < p[1] /\ p[1] < b.right
                 /\ b.top < p[2] /\ p[2] < b.bottom
                 => bout.px[p] = infile.px[p]
              /\ \/ p[1] < b.left - (border_width - 1)
                 \/ p[1] > b.right + (border_width - 1)
                 \/ p[2] < b.top - (border_width - 1)
                 \/ p[2] > b.bottom + (border_width - 1)
                 => bout.px[p] = infile.px[p]

\* a 3 x 3 image whose subject is two opposite corners, width 2: the eight
\* pixels of the edge are painted, the transparent pixel in the middle is
\* kept
C22_Witness ==
    /\ bpc = "done" /\ bret
    /\ infile.mode = "RGBA" /\ infile.w = 3 /\ infile.h = 3
    /\ Subject(infile) = {<<0, 0>>, <<2, 2>>}
    /\ border_width = 2
    /\ hex_to_rgb(border_color) = <<255, 0, 0>>
    /\ bout.px[<<1, 1>>] = [rgb |-> InputRGB, a |-> 0]
    /\ \A p \in Pixels(3, 3) \ {<<1, 1>>} :
          bout.px[p] = [rgb |-> <<255, 0, 0>>, a |-> 255]

\* a pool thread is inside process_single
Busy(w) == wpc[w] # "idle"

\* C23: for any two positions of the source list given to process_batch the
\* two requests have different output paths, so no two process_single calls
\* running at the same time are to write the same file, and no two calls
\* that succeeded have written the same file.
C23_DistinctOutputs ==
    /\ \A i, j \in Items : i # j => Tasks[i].output # Tasks[j].output
    /\ \A v, w \in Workers :
          v # w /\ Busy(v) /\ Busy(w) =>
            Tasks[wtask[v]].output # Tasks[wtask[w]].output
    /\ \A i, j \in Items :
          i # j /\ Success(i) /\ Success(j) =>
            future[i].val[3] # future[j].val[3]

\* photo 1 of two directories: two pool threads are inside process_single
\* at the same time with different sources and the same output path
C23_Witness ==
    /\ sources = <<SourcePath("examples", 1), SourcePath("uploads", 1)>>
    /\ Busy(1) /\ Busy(2)
    /\ wtask[1] # wtask[2]
    /\ Tasks[wtask[1]].source # Tasks[wtask[2]].source
    /\ Tasks[wtask[1]].output = Tasks[wtask[2]].output

\* a step in which wait_for_completion raises TimeoutError
RaisesTimeout ==
    \E w \in Workers :
        /\ wpc[w] = "call" /\ gpc = "while"
        /\ wpc'[w] = "except" /\ exc'[w] = TimeoutError(timeout)

\* C24: when the job got into the server's listing at a time strictly
\* before the timeout had elapsed (and stayed there), the call does not
\* raise TimeoutError; and a call with timeout > 0 raises TimeoutError only
\* after at least one poll.
C24_PresentInTimeReturns ==
    [][RaisesTimeout =>
         /\ ~(history.present /\ listed_in_time)
         /\ timeout > 0 => \E k \in 1..Len(ops) : ops[k].op = "history"]_vars

\* the last poll before the timeout did not find the job, the job is
\* listed while the call sleeps, and the loop test after the sleep fails
C24_Witness ==
    /\ gpc = "sleep"
    /\ history.present /\ listed_in_time
    /\ elapsed < timeout
    /\ ~(elapsed + PollInterval < timeout)

====
